---- MODULE Spec2Model ----
(***************************************************************************)
(* A model of bot.py: the Telegram handlers handle_message and             *)
(* handle_callback, the membership check autorization, and the link        *)
(* resolution pipeline psa_bypasser / try2link_scrape / try2link_bypass.    *)
(*                                                                         *)
(* A Python str is a sequence of one-character strings, so that split,     *)
(* replace, lower, `in` and indexing are computed as Python computes them.  *)
(***************************************************************************)
EXTENDS Integers, Sequences, FiniteSets, TLC

VARIABLES members, mh, menus, cb

vars == <<members, mh, menus, cb>>

----------------------------------------------------------------------------
(* Bounds of the model *)

\* longest source page, in containers
MaxItems == 3
\* most tokens in an inbound message text
MaxTokens == 3
\* longest rate-limit duration the transport signals
MaxFlood == 2
\* messages handled one after the other in the whole-bot specification
MaxMsgs == 1
\* callback queries of the whole-bot specification
MaxClicks == 1
\* longest source page of the whole-bot specification
BotItems == 1
\* longest source page of the concurrent specification
ConcItems == 2

----------------------------------------------------------------------------
(* Python str operations *)

LowerChars == <<"a", "b", "c", "d", "e", "f", "g", "h", "i", "j", "k", "l", "m", "n", "o", "p", "q", "r", "s", "t", "u", "v", "w", "x", "y", "z">>
UpperChars == <<"A", "B", "C", "D", "E", "F", "G", "H", "I", "J", "K", "L", "M", "N", "O", "P", "Q", "R", "S", "T", "U", "V", "W", "X", "Y", "Z">>

LowerChar(c) ==
  IF \E k \in 1..26 : UpperChars[k] = c
  THEN LowerChars[CHOOSE k \in 1..26 : UpperChars[k] = c]
  ELSE c

UpperChar(c) ==
  IF \E k \in 1..26 : LowerChars[k] = c
  THEN UpperChars[CHOOSE k \in 1..26 : LowerChars[k] = c]
  ELSE c

\* str.lower()
Lower(s) == [k \in 1..Len(s) |-> LowerChar(s[k])]

\* str.capitalize(): first character upper-cased, the rest lower-cased
Capitalize(s) ==
  [k \in 1..Len(s) |-> IF k = 1 THEN UpperChar(s[k]) ELSE LowerChar(s[k])]

\* `sub in s` for two strings
Contains(s, sub) ==
  \E k \in 0..(Len(s) - Len(sub)) : SubSeq(s, k + 1, k + Len(sub)) = sub

\* s.replace(old, new) for a one-character old and new
Replace(s, old, new) ==
  [k \in 1..Len(s) |-> IF <<s[k]>> = old THEN new[1] ELSE s[k]]

\* s.split(c) for a one-character separator c: always at least one piece
RECURSIVE Split(_, _)
Split(s, c) ==
  IF \A k \in 1..Len(s) : s[k] # c
  THEN <<s>>
  ELSE LET k == CHOOSE j \in 1..Len(s) :
                  s[j] = c /\ \A h \in 1..(j - 1) : s[h] # c
       IN  <<SubSeq(s, 1, k - 1)>> \o Split(SubSeq(s, k + 1, Len(s)), c)

\* c.join(parts)
RECURSIVE Join(_, _)
Join(parts, c) ==
  IF Len(parts) = 0 THEN <<>>
  ELSE IF Len(parts) = 1 THEN parts[1]
  ELSE parts[1] \o <<c>> \o Join(Tail(parts), c)

IsSpace(c) == c \in {" ", "\n", "\t"}

\* str.strip()
RECURSIVE Strip(_)
Strip(s) ==
  IF Len(s) = 0 THEN s
  ELSE IF IsSpace(s[1]) THEN Strip(Tail(s))
  ELSE IF IsSpace(s[Len(s)]) THEN Strip(SubSeq(s, 1, Len(s) - 1))
  ELSE s

\* `a and b` on two strings: a when a is empty (falsy), else b
PyAnd(a, b) == IF Len(a) = 0 THEN a ELSE b

\* the values of a Python sequence in order, without its last one: seq[:-1]
ButLast(seq) == SubSeq(seq, 1, Len(seq) - 1)

----------------------------------------------------------------------------
(* Literals of bot.py *)

HostPm == <<"h", "t", "t", "p", "s", ":", "/", "/", "p", "s", "a", ".", "p", "m", "/">>
HostRe == <<"h", "t", "t", "p", "s", ":", "/", "/", "p", "s", "a", ".", "r", "e", "/">>
Movie == <<"m", "o", "v", "i", "e">>
TvShow == <<"t", "v", "-", "s", "h", "o", "w">>
Q720 == <<"7", "2", "0", "p">>
Q1080 == <<"1", "0", "8", "0", "p">>
Q2160 == <<"2", "1", "6", "0", "p">>
L720 == <<"l", "7", "2", "0", "p">>
L1080 == <<"l", "1", "0", "8", "0", "p">>
L2160 == <<"l", "2", "1", "6", "0", "p">>
Cancel == <<"c", "a", "n", "c", "e", "l">>

\* re.search("https://psa\.(pm|re)/", s)
HostPattern(s) == Contains(s, HostPm) \/ Contains(s, HostRe)

\* the callback_data of the buttons of a menu, in keyboard order
Buttons(kind, link) ==
  IF kind = "movie"
  THEN <<Q720 \o <<" ">> \o link, Q1080 \o <<" ">> \o link,
         Q2160 \o <<" ">> \o link, Cancel>>
  ELSE <<Q720 \o <<" ">> \o link, Q1080 \o <<" ">> \o link,
         Q2160 \o <<" ">> \o link,
         L720 \o <<" ">> \o link, L1080 \o <<" ">> \o link,
         L2160 \o <<" ">> \o link, Cancel>>

----------------------------------------------------------------------------
(* Exceptions and the chat transport *)

\* a raised exception: its class, the place that raised it, and its value
Exc(t, at, v) == [t |-> t, at |-> at, v |-> v]
NoExc == Exc("none", "", 0)

Users == {"u1", "u2"}

FloodDurations == 1..MaxFlood

\* what one awaited call on the chat transport can do: return, signal a
\* rate limit of d seconds, or fail with another RPC error
TransportFaults(at) ==
  {Exc("FloodWait", at, d) : d \in FloodDurations} \cup {Exc("RPCError", at, 0)}
Transport(at) == {NoExc} \cup TransportFaults(at)

\* app.get_chat_member(CHAT, user_id)
GetChatMember(uid, mem) ==
  (IF uid \in mem THEN {NoExc}
   ELSE {Exc("UserNotParticipant", "get_chat_member", 0)})
  \cup TransportFaults("get_chat_member")

NotAllowed == Exc("Exception", "You are not allowed to use this bot.", 0)

\* autorization: the exception it leaves with (NoExc: it returns)
autorization(res) == IF res.t = "UserNotParticipant" THEN NotAllowed ELSE res

\* the value handed to asyncio.sleep in the FloodWait handlers: the caught
\* exception object itself
SleepArg(wait) == wait

\* asyncio.sleep(delay): compares delay with 0 first, which raises TypeError
\* for a value that is not a number. The seconds slept, or -1 for TypeError.
asyncio_sleep(delay) == IF delay.t = "int" THEN delay.v ELSE -1

SleepTypeError == Exc("TypeError", "asyncio.sleep", 0)

----------------------------------------------------------------------------
(* handle_message *)

\* a handler invocation that has not started
IdleMsg ==
  [id |-> 0, pc |-> "idle", from |-> "u1", text |-> <<>>, links |-> <<>>,
   i |-> 0, exc |-> NoExc, checked |-> "nobody", errs |-> <<>>,
   slept |-> <<>>, flood |-> NoExc, faults |-> FALSE]

\* the dispatcher calls handle_message(app, message)
StartMsg(n, text, from) ==
  [IdleMsg EXCEPT !.id = n, !.pc = "auth", !.from = from, !.text = text]

\* the list comprehension of handle_message: the tokens of the lower-cased
\* text, kept when the whole text matches the host pattern
ExtractLinks(text) ==
  LET low == Lower(text)
      toks == Split(Replace(low, PyAnd(<<",">>, <<"\n">>), <<" ">>), " ")
      keep(item) == HostPattern(low)
  IN  SelectSeq(toks, keep)

\* the menu a link gets: "movie", "tv-show", "none" (no case matches) or
\* "IndexError" (link.split("/")[3] does not exist)
MenuKind(link) ==
  LET seg == Split(link, "/")
  IN  IF Len(seg) < 4 THEN "IndexError"
      ELSE IF seg[4] = Movie THEN "movie"
      ELSE IF seg[4] = TvShow THEN "tv-show"
      ELSE "none"

Menu(n, owner, kind, link) ==
  [msg |-> n, owner |-> owner, kind |-> kind, link |-> link, deleted |-> FALSE]

\* await autorization(message.from_user.id), outside the try block
MsgAuth ==
  /\ mh.pc = "auth"
  /\ \E res \in GetChatMember(mh.from, members) :
       LET e == autorization(res)
       IN  mh' = IF e = NoExc
                 THEN [mh EXCEPT !.pc = "body", !.checked = mh.from]
                 ELSE [mh EXCEPT !.pc = "raised", !.exc = e,
                                 !.faults = @ \/ res.t \in {"FloodWait", "RPCError"}]
  /\ UNCHANGED <<members, menus, cb>>

\* the early return on a text without the host pattern, else the extraction
MsgBody ==
  /\ mh.pc = "body"
  /\ mh' = IF ~HostPattern(Lower(mh.text))
           THEN [mh EXCEPT !.pc = "done"]
           ELSE [mh EXCEPT !.pc = "loop", !.links = ExtractLinks(mh.text), !.i = 1]
  /\ UNCHANGED <<members, menus, cb>>

\* one iteration of `for link in links`, or the end of the loop
MsgLoop ==
  /\ mh.pc = "loop"
  /\ IF mh.i > Len(mh.links)
     THEN /\ mh' = [mh EXCEPT !.pc = "done"]
          /\ UNCHANGED menus
     ELSE LET link == mh.links[mh.i]
              kind == MenuKind(link)
          IN  CASE kind = "IndexError" ->
                     /\ mh' = [mh EXCEPT !.pc = "error",
                                         !.exc = Exc("IndexError", "handle_message", 0)]
                     /\ UNCHANGED menus
                [] kind = "none" ->
                     /\ mh' = [mh EXCEPT !.i = @ + 1]
                     /\ UNCHANGED menus
                [] OTHER ->
                     \E res \in Transport("reply") :
                       IF res = NoExc
                       THEN /\ menus' = Append(menus, Menu(mh.id, mh.from, kind, link))
                            /\ mh' = [mh EXCEPT !.i = @ + 1]
                       ELSE /\ UNCHANGED menus
                            /\ mh' = [mh EXCEPT
                                       !.pc = IF res.t = "FloodWait" THEN "flood" ELSE "error",
                                       !.exc = res, !.faults = TRUE,
                                       !.flood = IF res.t = "FloodWait" THEN res ELSE @]
  /\ UNCHANGED <<members, cb>>

\* except FloodWait as wait: await asyncio.sleep(wait)
MsgFlood ==
  /\ mh.pc = "flood"
  /\ LET secs == asyncio_sleep(SleepArg(mh.exc))
     IN  mh' = IF secs < 0
               THEN [mh EXCEPT !.pc = "raised", !.exc = SleepTypeError]
               ELSE [mh EXCEPT !.pc = "done", !.slept = Append(@, secs)]
  /\ UNCHANGED <<members, menus, cb>>

\* except Exception as error: await message.reply(error text)
MsgError ==
  /\ mh.pc = "error"
  /\ \E res \in Transport("reply") :
       mh' = IF res = NoExc
             THEN [mh EXCEPT !.pc = "done", !.errs = Append(@, mh.exc)]
             ELSE [mh EXCEPT !.pc = "raised", !.exc = res, !.faults = TRUE]
  /\ UNCHANGED <<members, menus, cb>>

NextMsg == MsgAuth \/ MsgBody \/ MsgLoop \/ MsgFlood \/ MsgError

----------------------------------------------------------------------------
(* psa_bypasser, try2link_scrape, try2link_bypass *)

\* What the HTTP side answers for one container of the source page: the URL
\* the two-stage bypass ends with, or the exception resolving it raises.
Resolved(url) == [exc |-> NoExc, url |-> url]
Failing(e) == [exc |-> e, url |-> <<>>]

\* link.a is None: link.a.get("href") raises
NoAnchor == Exc("AttributeError", "psa_bypasser", 0)
\* client.get raises in try2link_scrape
FetchFailed == Exc("ConnectionError", "try2link_scrape", 0)
\* re.findall(...)[0] on a first-stage page without a try2link.com reference
NoShortenerRef == Exc("IndexError", "try2link_scrape", 0)
\* soup.find(id="go-link") is None on the gate page
NoForm == Exc("AttributeError", "try2link_bypass", 0)
\* bypassed_url.json()["url"] on a terminal response without the field
NoUrlField == Exc("KeyError", "try2link_bypass", 0)
\* client.get(psa_url) raises in psa_bypasser, outside its try block
PageFetchFailed == Exc("ConnectionError", "psa_bypasser", 0)

\* the failures raised before try2link_bypass reaches asyncio.sleep(7)
BeforeSleep == {NoAnchor, FetchFailed, NoShortenerRef, NoForm}

NoResults == Exc("Exception", "No results found!", 0)

\* the fixed delay of try2link_bypass
BypassDelay == 7

\* A variant of Filter that appends every resolved URL, untested
FilterAny(items, selection, result) ==
  [items |-> Append(items, result), brk |-> FALSE, exc |-> NoExc]

\* The statements of the loop body after `result` is known: the batch after
\* them, whether the loop breaks, and the exception they raise if any.
Filter(items, selection, result) ==
  LET keep == [items |-> Append(items, result), brk |-> FALSE, exc |-> NoExc]
      skip == [items |-> items, brk |-> FALSE, exc |-> NoExc]
      stop == [items |-> items, brk |-> TRUE, exc |-> NoExc]
      fail == [items |-> items, brk |-> FALSE,
               exc |-> Exc("IndexError", "psa_bypasser", 0)]
  IN  IF Len(selection) = 0 THEN fail
      ELSE IF selection[1] = "l" /\ Contains(result, Tail(selection))
      THEN LET seg == Split(result, "/")
           IN  IF Len(seg) < 4 THEN fail
               ELSE LET current == Strip(Join(ButLast(Split(seg[4], "-")), " "))
                    IN  IF Len(items) = 0 THEN keep
                        ELSE IF Len(items) > Len(result) THEN fail
                        ELSE IF Contains(<<result[Len(items)]>>, current) THEN keep
                        ELSE stop
      ELSE IF Contains(result, selection) THEN keep
      ELSE skip

\* the loop body on one container
LoopBody(items, selection, item) ==
  IF item.exc # NoExc
  THEN [items |-> items, brk |-> FALSE, exc |-> item.exc]
  ELSE Filter(items, selection, item.url)

\* A variant of ExceptPass that leaves the loop: `except: break`
ExceptBreak(out) == [out EXCEPT !.exc = NoExc, !.brk = @ \/ out.exc # NoExc]

\* A variant of ExceptPass without the try block: the exception leaves
\* psa_bypasser
ExceptRaise(out) == out

\* `except: pass` around the loop body: the exception is dropped and the loop
\* goes on with the next container
ExceptPass(out) == [out EXCEPT !.exc = NoExc]

\* A variant of PsaEnd without the test of len(items)
PsaEndNoTest(items) == NoExc

\* the end of psa_bypasser: the exception it raises, if any
PsaEnd(items) == IF Len(items) = 0 THEN NoResults ELSE NoExc

\* psa_bypasser run from its first statement to its last without another
\* task in between: the batch, and the exception it raises if any
RECURSIVE Scan(_, _, _)
Scan(rest, selection, items) ==
  IF Len(rest) = 0 THEN [items |-> items, exc |-> NoExc]
  ELSE LET out == ExceptPass(LoopBody(items, selection, rest[1]))
       IN  IF out.exc # NoExc \/ out.brk
           THEN [items |-> out.items, exc |-> out.exc]
           ELSE Scan(Tail(rest), selection, out.items)

psa_bypasser(page, selection) ==
  IF ~page.ok THEN [items |-> <<>>, exc |-> PageFetchFailed]
  ELSE LET s == Scan(page.items, selection, <<>>)
       IN  IF s.exc # NoExc THEN s
           ELSE [items |-> s.items, exc |-> PsaEnd(s.items)]

\* the name of a link in the reply of handle_callback
LinkName(link) == Strip(Capitalize(Join(Split(Split(link, "/")[4], "-"), " ")))

\* the numbered entries of the reply, or the IndexError of link.split("/")[3]
RECURSIVE Entries(_, _)
Entries(links, n) ==
  IF Len(links) = 0 THEN [exc |-> NoExc, list |-> <<>>]
  ELSE IF Len(Split(links[1], "/")) < 4
  THEN [exc |-> Exc("IndexError", "handle_callback", 0), list |-> <<>>]
  ELSE LET rest == Entries(Tail(links), n + 1)
       IN  [exc |-> rest.exc,
            list |-> IF rest.exc # NoExc THEN <<>>
                     ELSE <<[n |-> n, name |-> LinkName(links[1]), link |-> links[1]]>>
                          \o rest.list]

----------------------------------------------------------------------------
(* handle_callback *)

\* the handler invocations the dispatcher can have in flight at once
Reqs == {1, 2}

\* the HTTP side of one request: the source page's containers in document
\* order, or a failed fetch of the page
Page(ok, items) == [ok |-> ok, items |-> items]

IdleCb ==
  [pc |-> "idle", from |-> "u1", owner |-> "u1", menu |-> 0, data |-> <<>>,
   page |-> Page(TRUE, <<>>), url |-> <<>>, sel |-> <<>>, idx |-> 0, items |-> <<>>,
   exc |-> NoExc, checked |-> "nobody", entries |-> <<>>, replied |-> FALSE,
   errs |-> <<>>, slept |-> <<>>, waited |-> 0, flood |-> NoExc, faults |-> FALSE,
   dropped |-> <<>>, returned |-> FALSE, psaexc |-> NoExc, deleted |-> FALSE,
   resolved |-> 0]

\* the dispatcher calls handle_callback(app, query): query.from_user is
\* `from`, query.message is menu `m`, whose reply_to_message is from `owner`
StartCb(from, m, owner, data, page) ==
  [IdleCb EXCEPT !.pc = "auth", !.from = from, !.menu = m, !.owner = owner,
                 !.data = data, !.page = page]

\* the user whose membership handle_callback checks
CheckedUser(c) == c.owner

\* A variant of StoreItems with one module-level list for all requests
StoreItemsShared(c, r, its) == [q \in DOMAIN c |-> [c[q] EXCEPT !.items = its]]

\* `items` is a local of psa_bypasser: each request appends to its own list
StoreItems(c, r, its) == [c EXCEPT ![r].items = its]

\* a transport fault caught by the try block of the handler
Caught(c, res) ==
  [c EXCEPT !.pc = IF res.t = "FloodWait" THEN "flood" ELSE "error",
            !.exc = res, !.faults = TRUE,
            !.flood = IF res.t = "FloodWait" THEN res ELSE @]

\* await autorization(query.message.reply_to_message.from_user.id), outside
\* the try block
CbAuth(r) ==
  /\ cb[r].pc = "auth"
  /\ \E res \in GetChatMember(CheckedUser(cb[r]), members) :
       LET e == autorization(res)
       IN  cb' = [cb EXCEPT ![r] =
                    IF e = NoExc
                    THEN [@ EXCEPT !.pc = "delete", !.checked = CheckedUser(cb[r])]
                    ELSE [@ EXCEPT !.pc = "raised", !.exc = e,
                                   !.faults = @ \/ res.t \in {"FloodWait", "RPCError"}]]
  /\ UNCHANGED <<members, mh, menus>>

\* await query.message.delete(), then the cancel test, the split of the
\* callback data and the fetch of the source page
CbDelete(r) ==
  /\ cb[r].pc = "delete"
  /\ \E res \in Transport("delete") :
       IF res # NoExc
       THEN /\ cb' = [cb EXCEPT ![r] = Caught(@, res)]
            /\ UNCHANGED menus
       ELSE /\ menus' = [menus EXCEPT ![cb[r].menu].deleted = TRUE]
            /\ LET parts == Split(cb[r].data, " ")
               IN  cb' = [cb EXCEPT ![r] =
                     IF cb[r].data = Cancel
                     THEN [@ EXCEPT !.pc = "answer", !.deleted = TRUE]
                     ELSE IF Len(parts) < 2
                     THEN [@ EXCEPT !.pc = "error", !.deleted = TRUE,
                                    !.exc = Exc("IndexError", "handle_callback", 0)]
                     ELSE IF ~cb[r].page.ok
                     THEN [@ EXCEPT !.pc = "error", !.deleted = TRUE,
                                    !.url = parts[2], !.sel = parts[1],
                                    !.exc = PageFetchFailed,
                                    !.psaexc = PageFetchFailed]
                     ELSE [@ EXCEPT !.pc = "item", !.deleted = TRUE,
                                    !.url = parts[2], !.sel = parts[1],
                                    !.idx = 1, !.items = <<>>]]
  /\ UNCHANGED <<members, mh>>

\* await query.answer(text="Cancelled"), then return
CbAnswer(r) ==
  /\ cb[r].pc = "answer"
  /\ \E res \in Transport("answer") :
       cb' = [cb EXCEPT ![r] =
                IF res = NoExc THEN [@ EXCEPT !.pc = "done"] ELSE Caught(@, res)]
  /\ UNCHANGED <<members, mh, menus>>

\* what the loop does after the body ran on container idx
AfterBody(c, r, body) ==
  LET out == ExceptPass(body)
      c1 == StoreItems(c, r, out.items)
  IN  [c1 EXCEPT ![r] =
        [@ EXCEPT !.pc = IF out.exc # NoExc THEN "error"
                         ELSE IF out.brk THEN "ret" ELSE "item",
                  !.exc = out.exc,
                  !.psaexc = out.exc,
                  !.idx = @ + 1,
                  !.dropped = IF body.exc # NoExc /\ out.exc = NoExc
                              THEN Append(@, body.exc) ELSE @]]

\* `for link in soup`: the end of the loop, or one container up to the
\* await asyncio.sleep(7) of try2link_bypass
CbItem(r) ==
  /\ cb[r].pc = "item"
  /\ LET c == cb[r]
     IN  IF c.idx > Len(c.page.items)
         THEN cb' = [cb EXCEPT ![r].pc = "ret"]
         ELSE LET item == c.page.items[c.idx]
              IN  IF item.exc \in BeforeSleep
                  THEN cb' = AfterBody(cb, r, LoopBody(c.items, c.sel, item))
                  ELSE cb' = [cb EXCEPT ![r].pc = "sleep"]
  /\ UNCHANGED <<members, mh, menus>>

\* after the sleep: the POST, the JSON field, and the rest of the loop body
CbResume(r) ==
  /\ cb[r].pc = "sleep"
  /\ LET c == cb[r]
         item == c.page.items[c.idx]
         c1 == [cb EXCEPT ![r].waited = @ + BypassDelay,
                          ![r].resolved = @ + (IF item.exc = NoExc THEN 1 ELSE 0)]
     IN  cb' = AfterBody(c1, r, LoopBody(c.items, c.sel, item))
  /\ UNCHANGED <<members, mh, menus>>

\* the end of psa_bypasser and the building of the reply text
CbReturn(r) ==
  /\ cb[r].pc = "ret"
  /\ LET c == cb[r]
         e == PsaEnd(c.items)
         msg == Entries(c.items, 1)
     IN  cb' = [cb EXCEPT ![r] =
                  IF e # NoExc THEN [@ EXCEPT !.pc = "error", !.exc = e, !.psaexc = e]
                  ELSE IF msg.exc # NoExc
                  THEN [@ EXCEPT !.pc = "error", !.exc = msg.exc, !.returned = TRUE]
                  ELSE [@ EXCEPT !.pc = "reply", !.entries = msg.list,
                                 !.returned = TRUE]]
  /\ UNCHANGED <<members, mh, menus>>

\* await query.message.reply_to_message.reply(text=message, quote=True)
CbReply(r) ==
  /\ cb[r].pc = "reply"
  /\ \E res \in Transport("reply") :
       cb' = [cb EXCEPT ![r] =
                IF res = NoExc THEN [@ EXCEPT !.pc = "done", !.replied = TRUE]
                ELSE Caught(@, res)]
  /\ UNCHANGED <<members, mh, menus>>

\* except FloodWait as wait: await asyncio.sleep(wait)
CbFlood(r) ==
  /\ cb[r].pc = "flood"
  /\ LET secs == asyncio_sleep(SleepArg(cb[r].exc))
     IN  cb' = [cb EXCEPT ![r] =
                  IF secs < 0
                  THEN [@ EXCEPT !.pc = "raised", !.exc = SleepTypeError]
                  ELSE [@ EXCEPT !.pc = "done", !.slept = Append(@, secs)]]
  /\ UNCHANGED <<members, mh, menus>>

\* except Exception as error: the error reply
CbError(r) ==
  /\ cb[r].pc = "error"
  /\ \E res \in Transport("reply") :
       cb' = [cb EXCEPT ![r] =
                IF res = NoExc
                THEN [@ EXCEPT !.pc = "done", !.errs = Append(@, cb[r].exc)]
                ELSE [@ EXCEPT !.pc = "raised", !.exc = res, !.faults = TRUE]]
  /\ UNCHANGED <<members, mh, menus>>

NextCb ==
  \E r \in Reqs :
    \/ CbAuth(r) \/ CbDelete(r) \/ CbAnswer(r) \/ CbItem(r) \/ CbResume(r)
    \/ CbReturn(r) \/ CbReply(r) \/ CbFlood(r) \/ CbError(r)

----------------------------------------------------------------------------
(* Inputs *)

LinkMovie == <<"h", "t", "t", "p", "s", ":", "/", "/", "p", "s", "a", ".", "p", "m", "/", "m", "o", "v", "i", "e", "/", "u", "p">>
LinkTv == <<"h", "t", "t", "p", "s", ":", "/", "/", "p", "s", "a", ".", "r", "e", "/", "t", "v", "-", "s", "h", "o", "w", "/", "e", "r">>
LinkGame == <<"h", "t", "t", "p", "s", ":", "/", "/", "p", "s", "a", ".", "p", "m", "/", "g", "a", "m", "e", "/", "g", "o">>
WordSee == <<"S", "e", "e">>

Tokens == {LinkMovie, LinkTv, LinkGame, WordSee}
Seps == {<<" ">>, <<"\n">>, <<",">>, <<",", " ">>}

\* the texts of n tokens, one separator between neighbours
RECURSIVE TextsOf(_)
TextsOf(n) ==
  IF n = 1 THEN Tokens
  ELSE {t \o sep \o tok : t \in TextsOf(n - 1), sep \in Seps, tok \in Tokens}

Texts == UNION {TextsOf(n) : n \in 1..MaxTokens}

UrlShowE2 == <<"h", "t", "t", "p", "s", ":", "/", "/", "x", ".", "t", "o", "/", "s", "h", "o", "w", "-", "7", "2", "0", "p", "-", "e", "2">>
UrlShowE1 == <<"h", "t", "t", "p", "s", ":", "/", "/", "x", ".", "t", "o", "/", "s", "h", "o", "w", "-", "7", "2", "0", "p", "-", "e", "1">>
UrlFilm == <<"h", "t", "t", "p", "s", ":", "/", "/", "x", ".", "t", "o", "/", "f", "i", "l", "m", "-", "7", "2", "0", "p", "-", "e", "1">>
UrlHd == <<"h", "t", "t", "p", "s", ":", "/", "/", "x", ".", "t", "o", "/", "s", "h", "o", "w", "-", "1", "0", "8", "0", "p", "-", "e", "1">>
UrlBare == <<"h", "t", "t", "p", "s", ":", "/", "/", "x", ".", "t", "o", "/", "7", "2", "0", "p">>
UrlNoPath == <<"7", "2", "0", "p">>
UrlOdd == <<"s", "/", "/", "/", "s", "-", "7", "2", "0", "p">>

PsaUrls == {UrlShowE2, UrlShowE1, UrlFilm, UrlHd, UrlBare, UrlNoPath, UrlOdd}
PsaFailures == {NoAnchor, FetchFailed, NoShortenerRef, NoForm, NoUrlField}
StructuralFailures == {NoShortenerRef, NoForm, NoUrlField}

\* the pages of at most n containers answered from the set S
PagesOf(n, S) ==
  {Page(TRUE, its) : its \in UNION {[1..k -> S] : k \in 0..n}}
  \cup {Page(FALSE, <<>>)}

PsaPages ==
  PagesOf(MaxItems, {Resolved(u) : u \in PsaUrls} \cup {Failing(e) : e \in PsaFailures})

\* the buttons pressed in the single-request specification
PsaData ==
  {Q720 \o <<" ">> \o LinkTv, L720 \o <<" ">> \o LinkTv,
   Q1080 \o <<" ">> \o LinkTv, Cancel}

ConcPages == PagesOf(ConcItems, {Resolved(UrlShowE2), Resolved(UrlFilm)})
ConcData == {Q720 \o <<" ">> \o LinkTv, L720 \o <<" ">> \o LinkTv}

BotPages == PagesOf(BotItems, {Resolved(UrlShowE2), Failing(NoShortenerRef)})
BotTexts == {LinkTv, LinkMovie \o <<",">> \o LinkTv, WordSee}

----------------------------------------------------------------------------
(* Specifications *)

\* one message, any text of the bounded set, from a member or not
InitMsg ==
  /\ members \in SUBSET Users
  /\ \E text \in Texts, from \in Users : mh = StartMsg(1, text, from)
  /\ menus = <<>>
  /\ cb = [r \in Reqs |-> IdleCb]

SpecMsg == InitMsg /\ [][NextMsg]_vars

\* one callback query on the menu of a tv-show link, any page of the bounded
\* set behind it
InitPsa ==
  /\ members = Users
  /\ mh = IdleMsg
  /\ menus = <<Menu(1, "u1", "tv-show", LinkTv)>>
  /\ \E data \in PsaData, page \in PsaPages :
       cb = [r \in Reqs |-> IF r = 1 THEN StartCb("u1", 1, "u1", data, page)
                            ELSE IdleCb]

SpecPsa == InitPsa /\ [][NextCb]_vars

\* two callback queries in flight at once, each on its own menu
InitConc ==
  /\ members = Users
  /\ mh = IdleMsg
  /\ menus = [r \in Reqs |-> Menu(r, "u1", "tv-show", LinkTv)]
  /\ \E data \in [Reqs -> ConcData], page \in [Reqs -> ConcPages] :
       cb = [r \in Reqs |-> StartCb("u1", r, "u1", data[r], page[r])]

\* the steps of a selection request (no cancel button is pressed)
NextConc ==
  \E r \in Reqs :
    \/ CbAuth(r) \/ CbDelete(r) \/ CbItem(r) \/ CbResume(r)
    \/ CbReturn(r) \/ CbReply(r) \/ CbFlood(r) \/ CbError(r)

SpecConc == InitConc /\ [][NextConc]_vars

\* the dispatcher hands the next inbound message to handle_message
NewMessage ==
  /\ mh.pc \in {"idle", "done", "raised"}
  /\ mh.id < MaxMsgs
  /\ \E text \in BotTexts, from \in Users : mh' = StartMsg(mh.id + 1, text, from)
  /\ UNCHANGED <<members, menus, cb>>

Clicks == Cardinality({r \in Reqs : cb[r].pc # "idle"})

\* a user of the chat presses a button of a menu that is still there
Click ==
  /\ Clicks < MaxClicks
  /\ \E from \in Users, m \in DOMAIN menus, page \in BotPages :
       /\ ~menus[m].deleted
       /\ \E b \in DOMAIN Buttons(menus[m].kind, menus[m].link) :
            LET r == CHOOSE q \in Reqs :
                       cb[q].pc = "idle" /\ \A h \in Reqs : cb[h].pc = "idle" => q <= h
            IN  cb' = [cb EXCEPT ![r] =
                         StartCb(from, m, menus[m].owner,
                                 Buttons(menus[m].kind, menus[m].link)[b], page)]
  /\ UNCHANGED <<members, mh, menus>>

InitBot ==
  /\ members \in SUBSET Users
  /\ mh = IdleMsg
  /\ menus = <<>>
  /\ cb = [r \in Reqs |-> IdleCb]

NextBot == NewMessage \/ NextMsg \/ Click \/ NextCb

SpecBot == InitBot /\ [][NextBot]_vars

----------------------------------------------------------------------------
(* Properties of psa_bypasser, under SpecPsa *)

PsaFinished(c) == c.returned \/ c.psaexc # NoExc
Latest(sel) == Len(sel) > 0 /\ sel[1] = "l"
NotFailing(item) == item.exc = NoExc

\* the successfully resolved URLs of a page, in container order
ResolvedUrls(page) ==
  LET ok == SelectSeq(page.items, NotFailing)
  IN  [k \in 1..Len(ok) |-> ok[k].url]

\* those of them that contain q
MatchingUrls(page, q) ==
  LET has(u) == Contains(u, q)
  IN  SelectSeq(ResolvedUrls(page), has)

Range(seq) == {seq[k] : k \in 1..Len(seq)}

\* C1: with a selection code that does not start with "l", psa_bypasser
\* returns exactly the resolved URLs that contain the code, in page order,
\* and raises "No results found!" when there is none.
C1_Theorem ==
  \A r \in Reqs :
    LET c == cb[r]
        want == MatchingUrls(c.page, c.sel)
    IN  (PsaFinished(c) /\ c.page.ok /\ Len(c.sel) > 0 /\ ~Latest(c.sel)) =>
          IF Len(want) = 0
          THEN ~c.returned /\ c.psaexc = NoResults
          ELSE c.returned /\ c.psaexc = NoExc /\ c.items = want

\* a returned batch of two different URLs from a page of three containers,
\* one of which was left out
C1_Witness ==
  \E r \in Reqs :
    LET c == cb[r]
    IN  /\ c.returned /\ ~Latest(c.sel)
        /\ Len(c.items) = 2 /\ c.items[1] # c.items[2]
        /\ Len(c.page.items) = 3

\* the title grouping of a URL: its path segment after the host without its
\* last hyphen-separated piece
TitleGroup(u) == Strip(Join(ButLast(Split(Split(u, "/")[4], "-")), " "))
HasPath(u) == Len(Split(u, "/")) >= 4

\* the longest initial run of urls whose title grouping is g
RECURSIVE InitialRun(_, _)
InitialRun(urls, g) ==
  IF Len(urls) = 0 \/ TitleGroup(urls[1]) # g THEN <<>>
  ELSE <<urls[1]>> \o InitialRun(Tail(urls), g)

\* C2: with a latest selection code "l" + q, psa_bypasser returns the
\* longest initial run of the resolved URLs containing q that share the title
\* grouping of the first of them.
C2_Claim ==
  \A r \in Reqs :
    LET c == cb[r]
        want == MatchingUrls(c.page, Tail(c.sel))
    IN  (/\ PsaFinished(c) /\ c.page.ok /\ Latest(c.sel)
         /\ Len(want) > 0 /\ \A k \in 1..Len(want) : HasPath(want[k])) =>
          c.returned /\ c.items = InitialRun(want, TitleGroup(want[1]))

\* C3: psa_bypasser never returns an empty batch, raises "No results found!"
\* exactly when the scan accepted nothing, and handle_callback never sends a
\* result reply that lists no link.
C3_Theorem ==
  \A r \in Reqs :
    LET c == cb[r]
    IN  /\ c.returned => Len(c.items) >= 1
        /\ (PsaFinished(c) /\ c.page.ok) => (c.psaexc = NoResults <=> Len(c.items) = 0)
        /\ c.pc = "reply" => Len(c.entries) >= 1
        /\ c.replied => Len(c.entries) >= 1

\* a scan over a page of two or more containers accepted nothing: the user
\* got the "No results found!" error and no result reply
C3_Witness ==
  \E r \in Reqs :
    LET c == cb[r]
    IN  /\ c.pc = "done" /\ c.errs = <<NoResults>> /\ ~c.replied
        /\ Len(c.page.items) >= 2 /\ c.idx > Len(c.page.items)

\* C8: a container whose resolution raises is skipped and the scan goes on:
\* the outcome of psa_bypasser is its outcome on the page without the
\* failing containers.
C8_Theorem ==
  \A r \in Reqs :
    LET c == cb[r]
        ref == psa_bypasser(Page(TRUE, SelectSeq(c.page.items, NotFailing)), c.sel)
    IN  (PsaFinished(c) /\ c.page.ok) =>
          /\ c.items = ref.items
          /\ c.psaexc = ref.exc
          /\ c.returned = (ref.exc = NoExc)

\* a batch returned from a page whose first container failed to resolve and
\* whose later containers were accepted
C8_Witness ==
  \E r \in Reqs :
    LET c == cb[r]
    IN  /\ c.returned /\ Len(c.page.items) >= 3
        /\ c.page.items[1].exc # NoExc
        /\ Len(c.items) >= 2
        /\ Len(c.dropped) >= 1

\* the structural failures met by the scan so far
MetStructural(c) ==
  {c.page.items[k].exc : k \in 1..(IF c.idx - 1 < Len(c.page.items)
                                   THEN c.idx - 1 ELSE Len(c.page.items))}
  \cap StructuralFailures

\* C9 as stated: a structural failure while resolving a link reaches
\* handle_callback, and the user receives an error message for it.
C9_Claim ==
  \A r \in Reqs :
    LET c == cb[r]
    IN  (c.pc = "done" /\ ~c.faults /\ MetStructural(c) # {}) =>
          \E k \in 1..Len(c.errs) : c.errs[k] \in StructuralFailures

\* C9 amended: a structural failure while resolving a link is dropped inside
\* the loop of psa_bypasser and the scan goes on with the next container; it
\* never leaves psa_bypasser, never reaches the handlers of handle_callback,
\* and no error reply carries it.
C9_Theorem ==
  \A r \in Reqs :
    LET c == cb[r]
    IN  /\ c.psaexc \notin StructuralFailures
        /\ c.exc \notin StructuralFailures
        /\ Range(c.errs) \cap StructuralFailures = {}
        /\ c.pc \in {"item", "ret", "reply", "done"} =>
             MetStructural(c) \subseteq Range(c.dropped)

\* a result reply sent although an earlier container of the page hit a
\* structural failure
C9_Witness ==
  \E r \in Reqs :
    LET c == cb[r]
    IN  /\ c.pc = "done" /\ c.replied
        /\ c.page.items[1].exc \in StructuralFailures
        /\ c.page.items[1].exc \in Range(c.dropped)

----------------------------------------------------------------------------
(* Properties of concurrent selection requests, under SpecConc *)

\* C10: requests that interleave at their suspension points each end with
\* the batch and the reply they would have ended with alone, on the same
\* HTTP answers.
C10_Theorem ==
  \A r \in Reqs :
    LET c == cb[r]
        alone == psa_bypasser(c.page, c.sel)
    IN  /\ PsaFinished(c) =>
             /\ c.items = alone.items
             /\ c.psaexc = alone.exc
             /\ c.returned = (alone.exc = NoExc)
        /\ c.replied => c.entries = Entries(alone.items, 1).list

\* request 1 has replied while request 2, which holds a batch that starts
\* with another URL, is suspended in the delay of its second container
C10_Witness ==
  /\ cb[1].replied /\ Len(cb[1].items) >= 1
  /\ cb[2].pc = "sleep" /\ Len(cb[2].items) >= 1
  /\ cb[2].items[1] # cb[1].items[1]

----------------------------------------------------------------------------
(* Properties of handle_message, under SpecMsg *)

Ended == {"done", "raised"}

StartsWith(s, p) == Len(s) >= Len(p) /\ SubSeq(s, 1, Len(p)) = p

\* the pieces of s between the characters of seps
RECURSIVE SplitAny(_, _)
SplitAny(s, seps) ==
  IF \A k \in 1..Len(s) : s[k] \notin seps
  THEN <<s>>
  ELSE LET k == CHOOSE j \in 1..Len(s) :
                  s[j] \in seps /\ \A h \in 1..(j - 1) : s[h] \notin seps
       IN  <<SubSeq(s, 1, k - 1)>> \o SplitAny(SubSeq(s, k + 1, Len(s)), seps)

\* a link of a recognized host and type
Recognized(tok) ==
  /\ StartsWith(tok, HostPm) \/ StartsWith(tok, HostRe)
  /\ Split(tok, "/")[4] \in {Movie, TvShow}

Pieces(text) == SplitAny(text, {" ", "\n", ","})

\* the links of the menus sent for message n, in the order sent
MenuLinks(n) ==
  LET mine(m) == m.msg = n
      sent == SelectSeq(menus, mine)
  IN  [k \in 1..Len(sent) |-> sent[k].link]

\* C5: a message from an authorized user with k >= 1 recognized links, set
\* apart by spaces, newlines or commas, gets exactly k menus, one per link in
\* message order, each carrying that link alone, and no error reply.
C5_Claim ==
  LET pieces == Pieces(mh.text)
      want == SelectSeq(pieces, Recognized)
  IN  (/\ mh.pc \in Ended /\ mh.checked = mh.from /\ ~mh.faults
       /\ Len(want) >= 1
       /\ \A k \in 1..Len(pieces) :
            Recognized(pieces[k]) \/ ~HostPattern(Lower(pieces[k]))) =>
        MenuLinks(mh.id) = want /\ mh.errs = <<>>

----------------------------------------------------------------------------
(* Properties of the two handlers, under SpecBot *)

\* the steps of handle_callback after its membership check
Acted(c) ==
  c.deleted \/ c.resolved > 0 \/ c.replied \/ c.pc \in {"item", "sleep", "ret", "reply"}

\* C4: a menu is sent only for a message of a chat member, and a menu is
\* deleted, a link resolved or a result replied only for a callback query
\* issued by a chat member.
C4_Claim ==
  /\ \A m \in DOMAIN menus : menus[m].owner \in members
  /\ \A r \in Reqs : Acted(cb[r]) => cb[r].from \in members

\* what C6 says of a handler that caught a rate-limit signal and has ended
SleptAndEnded(h) ==
  (h.flood # NoExc /\ h.pc \in Ended) =>
    h.pc = "done" /\ h.slept = <<h.flood.v>> /\ h.errs = <<>>

\* C6: a handler that catches a rate-limit signal of d seconds sleeps d
\* seconds and ends normally, without an error reply.
C6_Claim == SleptAndEnded(mh) /\ \A r \in Reqs : SleptAndEnded(cb[r])

\* what C7 says of a handler that has ended after a failure, the transport
\* having raised nothing
RepliedError(h) ==
  (h.pc \in Ended /\ ~h.faults /\ h.exc # NoExc) => h.errs = <<h.exc>>

\* C7: a failure other than a rate-limit signal, an authorization rejection
\* included, ends with an error reply that carries it.
C7_Claim == RepliedError(mh) /\ \A r \in Reqs : RepliedError(cb[r])

====
